---- MODULE Spec2Model ----
(***************************************************************************)
(* Model of the Cloudflare Ansible modules                                 *)
(*   plugins/modules/cfd_tunnel.py                                         *)
(*   plugins/modules/cloudflare_zone_settings_ssl.py                       *)
(* One invocation of a module is a sequence of blocking HTTP requests.     *)
(* Each request is one step of the model, so that the remote service and   *)
(* another actor working on the same account can be interleaved with it.   *)
(***************************************************************************)
EXTENDS FiniteSets, Integers, Sequences, TLC

\* Bounds of the model.
MaxTunnels == 2      \* tunnels the account can hold
PerPage == 1         \* tunnels the service puts on one listing page
MaxPage == 3         \* cap of the page counter of fetch_tunnel

\* The name every invocation asks for, and the name of an unrelated tunnel.
Name == "test-tunnel"
OtherName == "other"

ConfigChoices == {"local", "cloudflare"}
SecretChoices == {"", "test-secret"}
TunnelStates == {"absent", "present", "fetched"}
SslStates == {"fetched", "present"}
SslValues == {"full", "off"}

\* A tunnel payload of the API.  config_src = "missing" is a payload without
\* the key; deleted_at is TRUE when the payload carries a deletion timestamp.
None == [id |-> 0, name |-> "", config_src |-> "missing", deleted_at |-> FALSE]

Tunnel(i, n, c, d) == [id |-> i, name |-> n, config_src |-> c, deleted_at |-> d]

\* dict.get(key, default) on a payload modelled as a function.
DictGet(d, k, default) == IF k \in DOMAIN d THEN d[k] ELSE default

Min(a, b) == IF a < b THEN a ELSE b

(***************************************************************************)
(* The remote service: the listing endpoint.                               *)
(***************************************************************************)
TotalPages(st) == IF Len(st) = 0 THEN 1 ELSE (Len(st) + PerPage - 1) \div PerPage

PageOf(st, p) == SubSeq(st, (p - 1) * PerPage + 1, Min(p * PerPage, Len(st)))

\* The result_info objects a successful listing response may carry.
InfoHonest(st, p) == [page |-> p, total_pages |-> TotalPages(st)]
InfoNoTotal(p) == [page |-> p]
InfoStale(st) == [page |-> 1, total_pages |-> TotalPages(st)]
InfoNone == [k \in {} |-> 0]

ListReplies(st, p) ==
    { [ok |-> TRUE, result |-> PageOf(st, p), result_info |-> i] :
        i \in {InfoHonest(st, p), InfoNoTotal(p), InfoStale(st), InfoNone} }
    \cup { [ok |-> FALSE, result |-> <<>>, result_info |-> InfoNone] }

(***************************************************************************)
(* cfd_tunnel.py: the decisions of the code, as operators.                 *)
(***************************************************************************)
\* Matches without the test of deleted_at.
MatchesIgnoringDeleted(tunnel, name) == tunnel.name = name

\* fetch_tunnel, line 116: the predicate of the scan.
Matches(tunnel, name) == tunnel.name = name /\ ~tunnel.deleted_at

\* fetch_tunnel, lines 115-117: the first match of one page, or None.
RECURSIVE ScanPage(_, _)
ScanPage(tunnels, name) ==
    IF tunnels = <<>> THEN None
    ELSE IF Matches(Head(tunnels), name) THEN Head(tunnels)
    ELSE ScanPage(Tail(tunnels), name)

\* FetchStep with a failed request taken for an empty last page.
FetchStepLenient(reply, name) ==
    IF ~reply.ok THEN [kind |-> "return", tunnel |-> None]
    ELSE LET m == ScanPage(reply.result, name) IN
         IF m # None THEN [kind |-> "return", tunnel |-> m]
         ELSE IF "page" \notin DOMAIN reply.result_info
              THEN [kind |-> "crash", tunnel |-> None]
         ELSE IF reply.result_info["page"] >= DictGet(reply.result_info, "total_pages", 1)
              THEN [kind |-> "return", tunnel |-> None]
         ELSE [kind |-> "next", tunnel |-> None]

\* fetch_tunnel, lines 110-130: one turn of the loop on one response.
\*   "return" with a tunnel or None, "next" (request the next page),
\*   "fail" (fail_json), "crash" (None >= int raises TypeError, uncaught).
FetchStep(reply, name) ==
    IF ~reply.ok THEN [kind |-> "fail", tunnel |-> None]
    ELSE LET m == ScanPage(reply.result, name) IN
         IF m # None THEN [kind |-> "return", tunnel |-> m]
         ELSE IF "page" \notin DOMAIN reply.result_info
              THEN [kind |-> "crash", tunnel |-> None]
         ELSE IF reply.result_info["page"] >= DictGet(reply.result_info, "total_pages", 1)
              THEN [kind |-> "return", tunnel |-> None]
         ELSE [kind |-> "next", tunnel |-> None]

\* update_tunnel, line 185: current_tunnel.get("config_src", "local").
ConfigSrcOf(tunnel) ==
    IF tunnel.config_src = "missing" THEN "local" ELSE tunnel.config_src

\* UpdateNeeded without the comparison.
UpdateNeededAlways(current_tunnel, config_src, tunnel_secret) == TRUE

\* UpdateNeeded with a given tunnel_secret counted as a difference.
UpdateNeededWithSecret(current_tunnel, config_src, tunnel_secret) ==
    \/ ~(ConfigSrcOf(current_tunnel) = config_src /\ ~current_tunnel.deleted_at)
    \/ tunnel_secret # ""

\* update_tunnel, lines 185-188: is the PATCH needed?  The tunnel_secret is
\* sent with the PATCH (lines 196-197) but is no part of the comparison.
UpdateNeeded(current_tunnel, config_src, tunnel_secret) ==
    ~(ConfigSrcOf(current_tunnel) = config_src /\ ~current_tunnel.deleted_at)

\* The result of an invocation: exit_json ("exit"), fail_json ("fail") or an
\* uncaught exception ("crash"); "none" while the invocation is running.
NoResult ==
    [outcome |-> "none", changed |-> FALSE, tunnel |-> None, ssl_settings |-> "", msg |-> ""]

Exit(changed, tunnel, msg) ==
    [outcome |-> "exit", changed |-> changed, tunnel |-> tunnel, ssl_settings |-> "", msg |-> msg]

ExitSsl(changed, ssl_settings, msg) ==
    [outcome |-> "exit", changed |-> changed, tunnel |-> None,
     ssl_settings |-> ssl_settings, msg |-> msg]

Fail(msg) ==
    [outcome |-> "fail", changed |-> FALSE, tunnel |-> None, ssl_settings |-> "", msg |-> msg]

Crash(msg) ==
    [outcome |-> "crash", changed |-> FALSE, tunnel |-> None, ssl_settings |-> "", msg |-> msg]

\* A step of the control flow: where the invocation goes next and, when it
\* ends there, its result.
Goto(label) == [pc |-> label, result |-> NoResult]
Done(r) == [pc |-> "done", result |-> r]

\* AfterLookup with state=fetched succeeding when no tunnel was found.
AfterLookupFetchedLenient(state, tunnel, check_mode) ==
    CASE state = "fetched" -> Done(Exit(FALSE, tunnel, ""))
      [] state = "present" ->
            IF tunnel # None THEN Goto("get")
            ELSE IF check_mode
                 THEN Done(Exit(TRUE, None, "Would have created tunnel (check mode)"))
                 ELSE Goto("post")
      [] state = "absent" ->
            IF tunnel = None THEN Done(Exit(FALSE, None, "Tunnel does not exist"))
            ELSE IF check_mode
                 THEN Done(Exit(TRUE, None, "Would have deleted tunnel (check mode)"))
                 ELSE Goto("delete")

\* main, lines 293-328, with the entries of create_tunnel (143-144) and
\* delete_tunnel (217-228): what follows the return of fetch_tunnel.
AfterLookup(state, tunnel, check_mode) ==
    CASE state = "fetched" ->
            IF tunnel # None THEN Done(Exit(FALSE, tunnel, ""))
            ELSE Done(Fail("Tunnel not found."))
      [] state = "present" ->
            IF tunnel # None THEN Goto("get")
            ELSE IF check_mode
                 THEN Done(Exit(TRUE, None, "Would have created tunnel (check mode)"))
                 ELSE Goto("post")
      [] state = "absent" ->
            IF tunnel = None THEN Done(Exit(FALSE, None, "Tunnel does not exist"))
            ELSE IF check_mode
                 THEN Done(Exit(TRUE, None, "Would have deleted tunnel (check mode)"))
                 ELSE Goto("delete")

\* AfterGet with a failed GET by id not ending the invocation.
AfterGetKeepGoing(ok, current_tunnel, config_src, tunnel_secret, check_mode) ==
    IF ok /\ ~UpdateNeeded(current_tunnel, config_src, tunnel_secret)
    THEN Done(Exit(FALSE, current_tunnel, ""))
    ELSE IF check_mode
         THEN Done(Exit(TRUE, None, "Would have updated tunnel (check mode)"))
         ELSE Goto("patch")

\* update_tunnel, lines 180-192 and 203-208: what follows the GET by id.
AfterGet(ok, current_tunnel, config_src, tunnel_secret, check_mode) ==
    IF ~ok THEN Done(Fail("Error updating tunnel"))
    ELSE IF ~UpdateNeeded(current_tunnel, config_src, tunnel_secret)
         THEN Done(Exit(FALSE, current_tunnel, ""))
    ELSE IF check_mode
         THEN Done(Exit(TRUE, None, "Would have updated tunnel (check mode)"))
    ELSE Goto("patch")

\* DeleteResult with the 404 answer taken for an error.
DeleteResultStrict(status) ==
    IF status = 200 THEN Exit(TRUE, None, "Tunnel deleted")
    ELSE Fail("Error deleting tunnel")

\* delete_tunnel, lines 238-260: the result for the status of the DELETE.
DeleteResult(status) ==
    IF status = 200 THEN Exit(TRUE, None, "Tunnel deleted")
    ELSE IF status = 404 THEN Exit(FALSE, None, "Tunnel does not exist")
    ELSE Fail("Error deleting tunnel")

(***************************************************************************)
(* State.                                                                  *)
(***************************************************************************)
VARIABLES
    store,      \* the account's tunnels in listing order; a tunnel's id is its index
    ssl,        \* the zone's SSL setting
    pc,         \* "idle", the request the invocation issues next, or "done"
    params,     \* module.params and module.check_mode of the invocation
    page,       \* fetch_tunnel: params["page"]
    existing,   \* the tunnel fetch_tunnel returned (None: not found)
    current,    \* update_tunnel: current_tunnel
    result,     \* what the invocation handed to exit_json / fail_json
    log,        \* the HTTP requests of the invocation, with their answers
    quiet,      \* history: no other actor has acted since the invocation began
    absent0,    \* history: no live tunnel of the name when the invocation began
    ssl0,       \* history: the SSL setting when the invocation began
    prev        \* history: the preceding invocation, when it created the tunnel

vars == <<store, ssl, pc, params, page, existing, current, result, log,
          quiet, absent0, ssl0, prev>>

NoParams ==
    [module |-> "", state |-> "", config_src |-> "", tunnel_secret |-> "",
     check_mode |-> FALSE, value |-> ""]

NoPrev == [valid |-> FALSE, config_src |-> "", changed |-> FALSE, tunnel |-> None]

Request(method, what, p, status, info) ==
    [method |-> method, what |-> what, page |-> p, status |-> status, info |-> info]

\* No tunnel of the name without a deletion timestamp.
NoMatchIn(st) == \A i \in 1..Len(st) : ~(st[i].name = Name /\ ~st[i].deleted_at)

Mutating == {"POST", "PATCH", "DELETE"}

Init ==
    /\ store = <<>>
    /\ ssl \in SslValues
    /\ pc = "idle"
    /\ params = NoParams
    /\ page = 1
    /\ existing = None
    /\ current = None
    /\ result = NoResult
    /\ log = <<>>
    /\ quiet = TRUE
    /\ absent0 = TRUE
    /\ ssl0 = ""
    /\ prev = NoPrev


(***************************************************************************)
(* cfd_tunnel.py: the invocation, one action per HTTP request.             *)
(***************************************************************************)
\* main, lines 263-291: the parameters are parsed; every state begins with
\* fetch_tunnel (lines 294, 303 and 214), whose counter starts at 1 (line 106).
main_cfd_tunnel ==
    /\ pc = "idle"
    /\ \E state \in TunnelStates, config_src \in ConfigChoices,
          tunnel_secret \in SecretChoices, check_mode \in BOOLEAN :
          params' = [module |-> "cfd_tunnel", state |-> state, config_src |-> config_src,
                     tunnel_secret |-> tunnel_secret, check_mode |-> check_mode,
                     value |-> ""]
    /\ pc' = "list"
    /\ page' = 1
    /\ existing' = None
    /\ current' = None
    /\ result' = NoResult
    /\ log' = <<>>
    /\ quiet' = TRUE
    /\ absent0' = NoMatchIn(store)
    /\ ssl0' = ""
    /\ UNCHANGED <<store, ssl, prev>>

\* fetch_tunnel, lines 109-130: one listing request and what the loop does
\* with the response; on return, main goes on to the branch of the state.
fetch_tunnel ==
    /\ pc = "list"
    /\ \E reply \in ListReplies(store, page) :
         LET step == FetchStep(reply, Name)
             next == AfterLookup(params.state, step.tunnel, params.check_mode)
         IN  /\ log' = Append(log, Request("GET", "list", page,
                                           IF reply.ok THEN 200 ELSE 500,
                                           reply.result_info))
             /\ CASE step.kind = "next" ->
                        /\ page < MaxPage
                        /\ page' = page + 1
                        /\ UNCHANGED <<pc, existing, result>>
                  [] step.kind = "return" ->
                        /\ existing' = step.tunnel
                        /\ pc' = next.pc
                        /\ result' = next.result
                        /\ UNCHANGED page
                  [] step.kind = "fail" ->
                        /\ pc' = "done"
                        /\ result' = Fail("Error fetching tunnel")
                        /\ UNCHANGED <<page, existing>>
                  [] step.kind = "crash" ->
                        /\ pc' = "done"
                        /\ result' = Crash("TypeError")
                        /\ UNCHANGED <<page, existing>>
    /\ UNCHANGED <<store, ssl, params, current, quiet, absent0, ssl0, prev>>

\* update_tunnel, lines 179-192: the GET by id and the comparison.
update_tunnel_get ==
    /\ pc = "get"
    /\ \E ok \in BOOLEAN :
         LET tunnel == IF ok THEN store[existing.id] ELSE None
             next == AfterGet(ok, tunnel, params.config_src, params.tunnel_secret,
                              params.check_mode)
         IN  /\ log' = Append(log, Request("GET", "tunnel", 0,
                                           IF ok THEN 200 ELSE 500, InfoNone))
             /\ current' = tunnel
             /\ pc' = next.pc
             /\ result' = next.result
    /\ UNCHANGED <<store, ssl, params, page, existing, quiet, absent0, ssl0, prev>>

\* update_tunnel, lines 194-208: the PATCH.
update_tunnel_patch ==
    /\ pc = "patch"
    /\ \E ok \in BOOLEAN :
         /\ log' = Append(log, Request("PATCH", "tunnel", 0,
                                       IF ok THEN 200 ELSE 500, InfoNone))
         /\ IF ok
            THEN /\ store' = [store EXCEPT ![existing.id].config_src = params.config_src]
                 /\ result' = Exit(TRUE, store'[existing.id], "")
            ELSE /\ store' = store
                 /\ result' = Fail("Error updating tunnel")
    /\ pc' = "done"
    /\ UNCHANGED <<ssl, params, page, existing, current, quiet, absent0, ssl0, prev>>

\* create_tunnel, lines 146-167: the POST.  The service refuses a tunnel
\* beyond the capacity of the account.
create_tunnel ==
    /\ pc = "post"
    /\ \E ok \in BOOLEAN :
         /\ ok => Len(store) < MaxTunnels
         /\ log' = Append(log, Request("POST", "tunnel", 0,
                                       IF ok THEN 200 ELSE 500, InfoNone))
         /\ IF ok
            THEN /\ store' = Append(store, Tunnel(Len(store) + 1, Name,
                                                  params.config_src, FALSE))
                 /\ result' = Exit(TRUE, store'[Len(store')], "")
            ELSE /\ store' = store
                 /\ result' = Fail("Error creating tunnel")
    /\ pc' = "done"
    /\ UNCHANGED <<ssl, params, page, existing, current, quiet, absent0, ssl0, prev>>

\* delete_tunnel, lines 231-260: the DELETE.  The service answers 404 when
\* the tunnel has been deleted in the meantime.
delete_tunnel ==
    /\ pc = "delete"
    /\ \E status \in {200, 404, 500} :
         /\ status = 200 => ~store[existing.id].deleted_at
         /\ status = 404 => store[existing.id].deleted_at
         /\ log' = Append(log, Request("DELETE", "tunnel", 0, status, InfoNone))
         /\ store' = IF status = 200
                     THEN [store EXCEPT ![existing.id].deleted_at = TRUE]
                     ELSE store
         /\ result' = DeleteResult(status)
    /\ pc' = "done"
    /\ UNCHANGED <<ssl, params, page, existing, current, quiet, absent0, ssl0, prev>>


(***************************************************************************)
(* cloudflare_zone_settings_ssl.py.                                        *)
(***************************************************************************)
\* fetch_ssl_settings, lines 16-24, and set_ssl_settings, lines 45-53: what
\* follows the zone lookup.  reply is "ok", "empty" (200 with an empty
\* result, so result["result"][0] raises IndexError) or "fail".
AfterZoneGet(state, reply) ==
    CASE reply = "fail" -> Done(Fail("Failed to fetch zone information"))
      [] reply = "empty" -> Done(Crash("IndexError"))
      [] reply = "ok" -> IF state = "fetched" THEN Goto("ssl_get") ELSE Goto("ssl_patch")

\* main, lines 93-110: both states begin with the zone lookup; state=present
\* without a value fails before any request.
main_ssl ==
    /\ pc = "idle"
    /\ \E state \in SslStates, value \in SslValues \cup {""}, check_mode \in BOOLEAN :
         /\ params' = [module |-> "ssl", state |-> state, config_src |-> "",
                       tunnel_secret |-> "", check_mode |-> check_mode, value |-> value]
         /\ IF state = "present" /\ value = ""
            THEN /\ pc' = "done"
                 /\ result' = Fail("Value parameter is required when state is 'present'")
            ELSE /\ pc' = "zone_get"
                 /\ result' = NoResult
    /\ page' = 1
    /\ existing' = None
    /\ current' = None
    /\ log' = <<>>
    /\ quiet' = TRUE
    /\ absent0' = TRUE
    /\ ssl0' = ssl
    /\ UNCHANGED <<store, ssl, prev>>

\* fetch_ssl_settings, lines 10-24; set_ssl_settings, lines 39-53.
ssl_zone_get ==
    /\ pc = "zone_get"
    /\ \E reply \in {"ok", "empty", "fail"} :
         LET next == AfterZoneGet(params.state, reply)
         IN  /\ log' = Append(log, Request("GET", "zone", 0,
                                           IF reply = "fail" THEN 500 ELSE 200, InfoNone))
             /\ pc' = next.pc
             /\ result' = next.result
    /\ UNCHANGED <<store, ssl, params, page, existing, current, quiet, absent0, ssl0, prev>>

\* fetch_ssl_settings, lines 26-35, and main, lines 99-104.
fetch_ssl_settings ==
    /\ pc = "ssl_get"
    /\ \E ok \in BOOLEAN :
         /\ log' = Append(log, Request("GET", "ssl", 0, IF ok THEN 200 ELSE 500, InfoNone))
         /\ result' = IF ok
                      THEN ExitSsl(FALSE, ssl, "SSL settings fetched successfully.")
                      ELSE Fail("Failed to fetch SSL settings")
    /\ pc' = "done"
    /\ UNCHANGED <<store, ssl, params, page, existing, current, quiet, absent0, ssl0, prev>>

\* set_ssl_settings, lines 55-71, and main, lines 110-115.  module.check_mode
\* is read nowhere in this module.
set_ssl_settings ==
    /\ pc = "ssl_patch"
    /\ \E ok \in BOOLEAN :
         /\ log' = Append(log, Request("PATCH", "ssl", 0, IF ok THEN 200 ELSE 500, InfoNone))
         /\ ssl' = IF ok THEN params.value ELSE ssl
         /\ result' = IF ok
                      THEN ExitSsl(TRUE, ssl', "SSL settings updated successfully.")
                      ELSE Fail("Failed to set SSL settings")
    /\ pc' = "done"
    /\ UNCHANGED <<store, params, page, existing, current, quiet, absent0, ssl0, prev>>

(***************************************************************************)
(* The end of an invocation, and the other actor.  The two modules share   *)
(* no remote state: an invocation of one reads and writes nothing the      *)
(* other actor's work on the other service touches, so the other actor is  *)
(* interleaved only with the invocations its work can affect.              *)
(***************************************************************************)
Ok(e) == e.status = 200

\* The listing response reported the requested page and the number of pages.
Honest(e) == DOMAIN e.info = {"page", "total_pages"} /\ e.info["page"] = e.page

\* Every request was answered 2xx and every listing response was honest.
Clean(l) == \A i \in 1..Len(l) : Ok(l[i]) /\ (l[i].what = "list" => Honest(l[i]))

Methods(l) == {l[i].method : i \in 1..Len(l)}

\* exit_json / fail_json end the process.  The history keeps the invocation
\* when it was a present that started without the tunnel, in a quiet account
\* and without errors.
Return ==
    /\ pc = "done"
    /\ pc' = "idle"
    /\ prev' = IF /\ params.module = "cfd_tunnel" /\ params.state = "present"
                  /\ ~params.check_mode /\ quiet /\ Clean(log) /\ absent0
               THEN [valid |-> TRUE, config_src |-> params.config_src,
                     changed |-> result.changed, tunnel |-> result.tunnel]
               ELSE NoPrev
    /\ params' = NoParams
    /\ page' = 1
    /\ existing' = None
    /\ current' = None
    /\ result' = NoResult
    /\ log' = <<>>
    /\ quiet' = TRUE
    /\ absent0' = TRUE
    /\ ssl0' = ""
    /\ UNCHANGED <<store, ssl>>

\* An ended invocation returns at once: nothing happens between its last
\* request and its exit.
Disturbed ==
    /\ pc # "done"
    /\ quiet' = (pc = "idle")
    /\ prev' = NoPrev
    /\ UNCHANGED <<pc, params, page, existing, current, result, log, absent0, ssl0>>

\* Another actor creates a tunnel.
OtherCreate ==
    /\ params.module # "ssl"
    /\ Len(store) < MaxTunnels
    /\ \E t \in {Tunnel(Len(store) + 1, Name, c, FALSE) : c \in ConfigChoices \cup {"missing"}}
              \cup {Tunnel(Len(store) + 1, OtherName, "local", FALSE)} :
         store' = Append(store, t)
    /\ Disturbed
    /\ UNCHANGED ssl

\* Another actor deletes a tunnel: it stays in the listing with deleted_at.
OtherDelete ==
    /\ params.module # "ssl"
    /\ \E i \in 1..Len(store) :
         /\ store[i].name = Name
         /\ ~store[i].deleted_at
         /\ store' = [store EXCEPT ![i].deleted_at = TRUE]
    /\ Disturbed
    /\ UNCHANGED ssl

\* Another actor reconfigures a tunnel.
OtherSetConfig ==
    /\ params.module # "ssl"
    /\ \E i \in 1..Len(store), c \in ConfigChoices :
         /\ store[i].name = Name
         /\ store[i].config_src # c
         /\ store' = [store EXCEPT ![i].config_src = c]
    /\ Disturbed
    /\ UNCHANGED ssl

\* Another actor changes the SSL setting of the zone.
OtherSetSsl ==
    /\ params.module # "cfd_tunnel"
    /\ \E v \in SslValues : v # ssl /\ ssl' = v
    /\ Disturbed
    /\ UNCHANGED store

Next ==
    \/ main_cfd_tunnel
    \/ fetch_tunnel
    \/ update_tunnel_get
    \/ update_tunnel_patch
    \/ create_tunnel
    \/ delete_tunnel
    \/ main_ssl
    \/ ssl_zone_get
    \/ fetch_ssl_settings
    \/ set_ssl_settings
    \/ Return
    \/ OtherCreate
    \/ OtherDelete
    \/ OtherSetConfig
    \/ OtherSetSsl

Spec == Init /\ [][Next]_vars


(***************************************************************************)
(* Vocabulary of the properties.                                           *)
(***************************************************************************)
IsTunnel == params.module = "cfd_tunnel"

IsSsl == params.module = "ssl"

\* The listing requests of the invocation, in the order they were issued.
ListLog == SelectSeq(log, LAMBDA e : e.what = "list")

\* fetch_tunnel has returned to its caller (a tunnel or None).
LookupReturned ==
    /\ IsTunnel
    /\ pc \notin {"idle", "list"}
    /\ result.msg \notin {"Error fetching tunnel", "TypeError"}

\* The remote tunnels are as every listing response of the invocation saw them.
Undisturbed == quiet /\ Methods(log) \cap Mutating = {}

Live(st) == {i \in 1..Len(st) : st[i].name = Name /\ ~st[i].deleted_at}

Least(S) == CHOOSE i \in S : \A j \in S : i <= j

\* The first tunnel of the whole listing with the name and no deleted_at.
FirstLive(st) == IF Live(st) = {} THEN None ELSE st[Least(Live(st))]

\* The page the service puts the i-th tunnel on.
PageOfIndex(i) == ((i - 1) \div PerPage) + 1

\* A request failed; the 404 answer to the tunnel DELETE is no failure.
Failed(e) == ~Ok(e) /\ ~(e.method = "DELETE" /\ e.status = 404)

\* C1: two consecutive present invocations with the same config_src, check
\* mode off, no failed request, honest pagination and no other actor, the
\* first starting without a live tunnel of the name: the first ends with
\* changed=true after a POST, the second with changed=false, without POST or
\* PATCH, and with the payload the first returned.
C1_Idempotent ==
    (/\ pc = "done" /\ IsTunnel /\ params.state = "present"
     /\ ~params.check_mode /\ quiet /\ Clean(log))
    => /\ absent0 =>
            /\ result.outcome = "exit" /\ result.changed
            /\ Methods(log) \cap Mutating = {"POST"}
            /\ result.tunnel = FirstLive(store)
       /\ (prev.valid /\ prev.config_src = params.config_src) =>
            /\ prev.changed
            /\ result.outcome = "exit" /\ ~result.changed
            /\ Methods(log) \cap Mutating = {}
            /\ result.tunnel = prev.tunnel

C1_Witness ==
    /\ pc = "done" /\ IsTunnel /\ params.state = "present"
    /\ ~params.check_mode /\ quiet /\ Clean(log)
    /\ prev.valid /\ prev.config_src = params.config_src /\ prev.changed
    /\ ~result.changed /\ result.tunnel = prev.tunnel /\ result.tunnel # None
    /\ Len(ListLog) >= 2

\* C2: with check mode enabled no invocation of either module issues a POST,
\* PATCH or DELETE request (the half of the dry-run invariant that one run
\* decides; the reported flag is the other half).
C2_DryRun == params.check_mode => Methods(log) \cap Mutating = {}

\* C3: state=absent: when the lookup returns no tunnel the invocation ends
\* with changed=false and without a DELETE; a 404 answer to the DELETE ends
\* the invocation in success; a DELETE is issued only when the lookup found
\* the tunnel.
C3_AbsentIsSuccess ==
    /\ "DELETE" \in Methods(log) =>
            IsTunnel /\ params.state = "absent" /\ existing # None
    /\ (IsTunnel /\ params.state = "absent" /\ pc = "done") =>
         /\ (LookupReturned /\ existing = None) =>
               /\ result.outcome = "exit" /\ ~result.changed
               /\ "DELETE" \notin Methods(log)
         /\ \A i \in 1..Len(log) :
               (log[i].method = "DELETE" /\ log[i].status = 404) =>
                   result.outcome = "exit"

C3_Witness ==
    /\ IsTunnel /\ params.state = "absent" /\ pc = "done"
    /\ \E i \in 1..Len(log) : log[i].method = "DELETE" /\ log[i].status = 404
    /\ result.outcome = "exit" /\ ~result.changed

\* C4: state=fetched issues only GET requests and never reports
\* changed=true; cfd_tunnel ends with changed=false and the tunnel found, or
\* in failure when the lookup found none; and no step of a fetched invocation
\* changes the remote tunnels or the SSL setting.
C4_FetchedState ==
    (pc # "idle" /\ params.state = "fetched") =>
       /\ Methods(log) \subseteq {"GET"}
       /\ ~result.changed
       /\ (pc = "done" /\ LookupReturned) =>
             IF existing # None
             THEN result = Exit(FALSE, existing, "")
             ELSE result.outcome = "fail"
       /\ (pc = "done" /\ IsTunnel /\ quiet /\ Clean(log)) =>
             IF Live(store) # {}
             THEN result = Exit(FALSE, FirstLive(store), "")
             ELSE result.outcome = "fail"

C4_FetchedStep ==
    (params.state = "fetched" /\ log' # log) => (store' = store /\ ssl' = ssl)

C4_FetchedReadOnly == []C4_FetchedState /\ [][C4_FetchedStep]_vars

C4_Witness ==
    /\ pc = "done" /\ IsTunnel /\ params.state = "fetched"
    /\ quiet /\ Clean(log) /\ Len(log) >= 2
    /\ result.outcome = "exit" /\ result.tunnel # None


C6_FailedLookupFails ==
    \A i \in 1..Len(log) :
        (log[i].what = "list" /\ ~Ok(log[i])) =>
            /\ i = Len(log)
            /\ pc = "done"
            /\ result.outcome = "fail"
            /\ ~result.changed
            /\ result.msg # "Tunnel does not exist"
            /\ Methods(log) \cap Mutating = {}

C6_Witness ==
    /\ pc = "done" /\ IsTunnel /\ params.state = "present"
    /\ Len(log) >= 2
    /\ ~Ok(log[Len(log)]) /\ log[Len(log)].what = "list"
    /\ result.outcome = "fail"

\* C7: a cloudflare_zone_settings_ssl invocation with state=present whose
\* value equals the zone's SSL setting issues no PATCH and reports
\* changed=false with the current setting.
C7_OnlyIfDifferent ==
    (IsSsl /\ params.state = "present" /\ quiet /\ params.value = ssl0) =>
        /\ "PATCH" \notin Methods(log)
        /\ (pc = "done" /\ result.outcome = "exit") =>
              (~result.changed /\ result.ssl_settings = ssl0)

\* C8: when every listing response is answered 2xx, fetch_tunnel returns a
\* tunnel or None; no listing request follows a response that reports
\* page >= total_pages (1 when it reports none); and when every response
\* reports the requested page there are at most total_pages requests.
C8_PaginationTerminates ==
    (IsTunnel /\ \A i \in 1..Len(ListLog) : Ok(ListLog[i])) =>
        /\ pc \notin {"idle", "list"} => LookupReturned
        /\ \A i \in 1..Len(ListLog) :
              LET info == ListLog[i].info IN
              /\ ("page" \in DOMAIN info
                    /\ info["page"] >= DictGet(info, "total_pages", 1))
                 => i = Len(ListLog)
              /\ (\A j \in 1..Len(ListLog) : Honest(ListLog[j]))
                 => Len(ListLog) <= info["total_pages"]

\* C9: an invocation issues at most one mutating request, and only after
\* requests that were all successful GETs; a failed request (the 404 answer
\* to the tunnel DELETE apart) is the last request of the invocation, which
\* ends in failure.
C9_LookupThenMutate ==
    LET M == {i \in 1..Len(log) : log[i].method \in Mutating} IN
    /\ Cardinality(M) <= 1
    /\ \A i \in M : \A j \in 1..(i - 1) : log[j].method = "GET" /\ Ok(log[j])
    /\ \A i \in 1..Len(log) :
          Failed(log[i]) => (i = Len(log) /\ pc = "done" /\ result.outcome = "fail")

C9_Witness ==
    /\ pc = "done" /\ IsTunnel /\ Len(log) = 3
    /\ log[3].method = "PATCH" /\ Failed(log[3])
    /\ result.outcome = "fail"

\* The by-id GET of update_tunnel was answered 2xx.
GotCurrent ==
    /\ IsTunnel /\ params.state = "present" /\ pc = "done" /\ existing # None
    /\ \E i \in 1..Len(log) :
          log[i].method = "GET" /\ log[i].what = "tunnel" /\ Ok(log[i])

Differs == ConfigSrcOf(current) # params.config_src

\* A PATCH was issued or, in check mode, changed=true was reported.
Updated ==
    \/ "PATCH" \in Methods(log)
    \/ params.check_mode /\ result.outcome = "exit" /\ result.changed

\* C10 as stated: the update happens if and only if config_src differs, and
\* equal config_src ends with changed=false and the current payload.
C10_OnlyConfigSrc ==
    GotCurrent =>
        /\ Updated <=> Differs
        /\ ~Differs => result = Exit(FALSE, current, "")

\* C10 as amended: the update happens if and only if config_src differs or
\* the payload of the by-id GET carries deleted_at; otherwise the invocation
\* ends with changed=false and that payload, whatever the tunnel_secret; in
\* check mode no PATCH is issued.
C10_ConfigSrcOrDeleted ==
    GotCurrent =>
        /\ Updated <=> (Differs \/ current.deleted_at)
        /\ (~Differs /\ ~current.deleted_at) => result = Exit(FALSE, current, "")
        /\ params.check_mode => "PATCH" \notin Methods(log)

C10_Witness ==
    /\ GotCurrent /\ ~Differs /\ ~current.deleted_at
    /\ params.tunnel_secret # "" /\ ~quiet
    /\ current # existing
    /\ result = Exit(FALSE, current, "")

====
